---- MODULE Spec2Model ----
(***************************************************************************)
(* The blog REST backend: the relational store (users, posts, the four     *)
(* engagement tables and comments), the authorization guard, the body      *)
(* validation middleware and the route handlers of routes/postRoutes.js.   *)
(*                                                                         *)
(* A request is a record of the sequence reqs.  A handler runs its         *)
(* synchronous prefix (middleware chain, input parsing) when the request   *)
(* arrives and then one store call (one `await prisma...`) per step, so    *)
(* requests in flight interleave exactly at their awaits.                  *)
(***************************************************************************)
EXTENDS Integers, Sequences, FiniteSets, TLC

VARIABLES
    users,      \* table users: set of [id, email, username, password]
    posts,      \* table posts: set of [id, title, content, published, authorId]
    rows,       \* tables likes, saved, shared, reads: kind -> set of [id, userId, postId, createdAt]
    comments,   \* table comments: set of [id, userId, postId, content]
    nextId,     \* the autoincrement sequence of every table
    now,        \* the wall clock
    reqs        \* every request received so far, in arrival order

vars == <<users, posts, rows, comments, nextId, now, reqs>>
store == <<users, posts, rows, comments, nextId>>

\* ------------------------------------------------------------------ bounds

\* requests received in one behaviour of the sequential specifications
MaxSeqRequests == 3
\* requests received in one behaviour of the concurrent specifications
MaxRequests == 3
\* requests in flight at the same time in the concurrent specifications
MaxInFlight == 2
\* requests received in one behaviour of Spec and of the specifications of
\* two requests
MaxPostRequests == 2
\* last tick of the wall clock
MaxTime == 3

\* ------------------------------------------------------------- JS values

\* parseInt of a string that holds no number, or of undefined
NaN == -1
\* req.userId before the guard attached an identity
Undef == 0

Num(n) == [t |-> "num", v |-> n]
\* a field that is missing, or a string that is no number
NotNum == [t |-> "str", v |-> 0]

parseInt(raw) == IF raw.t = "num" THEN raw.v ELSE NaN

FalsyNaNOnly(n) == n = NaN

\* !x for a number x: true of 0 and of NaN
Falsy(n) == n = 0 \/ n = NaN

Kinds == {"like", "save", "share", "read"}
Tables == Kinds \cup {"user", "post", "comment"}

\* -------------------------------------------------------------- the store

findUniquePost(id) == {p \in posts : p.id = id}

findUniqueRowSwapped(kind, userId, postId) ==
    {x \in rows[kind] : x.userId = postId /\ x.postId = userId}

findUniqueRowAnyUser(kind, userId, postId) ==
    {x \in rows[kind] : x.postId = postId}

\* prisma.<kind>.findUnique({ where: { userId_postId: { userId, postId } } })
findUniqueRow(kind, userId, postId) ==
    {x \in rows[kind] : x.userId = userId /\ x.postId = postId}

countRowsAnyPost(kind, postId) == Cardinality(rows[kind])

countRows(kind, postId) == Cardinality({x \in rows[kind] : x.postId = postId})

UniqueOkNoConstraint(kind, userId, postId) == TRUE

\* @@unique([userId, postId]) of Like, Save, Share and Read
UniqueOk(kind, userId, postId) ==
    ~ \E x \in rows[kind] : x.userId = userId /\ x.postId = postId

ForeignKeysUnchecked(userId, postId) == TRUE

\* the foreign keys of an engagement or comment row
ForeignKeysOk(userId, postId) ==
    /\ \E u \in users : u.id = userId
    /\ \E p \in posts : p.id = postId

\* prisma.<kind>.create succeeds: otherwise it throws P2002 or P2003
CanCreateRow(kind, userId, postId) ==
    UniqueOk(kind, userId, postId) /\ ForeignKeysOk(userId, postId)

NewRow(kind, userId, postId) ==
    [id |-> nextId[kind], userId |-> userId, postId |-> postId, createdAt |-> now]

InsertRow(kind, userId, postId) ==
    /\ rows' = [rows EXCEPT ![kind] = @ \cup {NewRow(kind, userId, postId)}]
    /\ nextId' = [nextId EXCEPT ![kind] = @ + 1]

\* ------------------------------------------------------------ the tokens

\* expiresIn: '24h', in ticks of the clock
TokenTTL == 2

\* jwt.sign({ userId }, JWT_SECRET, {expiresIn}) at time `at`
generateToken(userId, at) == [userId |-> userId, exp |-> at + TokenTTL, sig |-> "secret"]
\* a token signed with another key, and a word that is no token at all
Forged(userId) == [userId |-> userId, exp |-> MaxTime + TokenTTL + 1, sig |-> "other"]
Word(w) == [userId |-> 0, exp |-> 0, sig |-> w]

NoHeader == <<>>
Bearer(tok) == <<Word("Bearer"), tok>>

\* authHeader && authHeader.split(' ')[1]: the second word of the header, if
\* there is one and it is not empty
TokenOf(hdr) == IF Len(hdr) >= 2 /\ hdr[2] # Word("") THEN {hdr[2]} ELSE {}

verifyTokenAnyKey(tok) == now < tok.exp

verifyTokenLiveUser(tok) ==
    /\ tok.sig = "secret" /\ now < tok.exp
    /\ \E u \in users : u.id = tok.userId /\ u.firstName = "f1"

\* jwt.verify(token, JWT_SECRET) does not throw
verifyToken(tok) == tok.sig = "secret" /\ now < tok.exp

authenticateTokenNoVerify(hdr) ==
    IF TokenOf(hdr) = {} THEN [status |-> 401, userId |-> Undef]
    ELSE [status |-> 0, userId |-> hdr[2].userId]

\* authenticateToken: status 0 stands for next(), with req.userId attached
authenticateToken(hdr) ==
    IF TokenOf(hdr) = {} THEN [status |-> 401, userId |-> Undef]
    ELSE IF verifyToken(hdr[2]) THEN [status |-> 0, userId |-> hdr[2].userId]
    ELSE [status |-> 403, userId |-> Undef]

\* ---------------------------------------------------------- the requests

NoBody == [keys |-> {}, title |-> "", content |-> "", published |-> FALSE]

InFlight == {r \in 1..Len(reqs) : reqs[r].pc # "done"}
Finished == {r \in 1..Len(reqs) : reqs[r].pc = "done"}

\* a request as it arrives: `at` is the time of arrival, `found` the id a
\* lookup or a create returned; `pre` and `after` are history (the table of the
\* request's kind and the requests already answered, at arrival), kept where
\* env.hist asks for it
Request(env, op, hdr, postId, userId, body) ==
    [op |-> op, hdr |-> hdr, caller |-> Undef, postId |-> postId, userId |-> userId,
     body |-> body, pc |-> "start", found |-> 0, wrote |-> "", err |-> "",
     status |-> 0, active |-> FALSE, count |-> 0, at |-> now,
     pre |-> IF env.hist /\ op \in Kinds THEN rows[op] ELSE {},
     after |-> IF env.hist THEN Finished ELSE {}]

\* res.status(s).json(...)
Respond(q, s) == [q EXCEPT !.pc = "done", !.status = s]
CatchGeneric(q, code, s) == [q EXCEPT !.pc = "done", !.status = 500, !.err = code]

CatchSwallowed(q, code, s) ==
    [q EXCEPT !.pc = "done", !.status = 200, !.err = code, !.active = FALSE]

\* a store call threw `code`; the catch block answers s
Catch(q, code, s) == [q EXCEPT !.pc = "done", !.status = s, !.err = code]
\* the error code of a prisma.<kind>.create that cannot succeed
CreateError(kind, userId, postId) ==
    IF UniqueOk(kind, userId, postId) THEN "P2003" ELSE "P2002"
RespondCountCarried(q, s, a, n) ==
    [q EXCEPT !.pc = "done", !.status = s, !.active = a, !.count = q.count + 1]
RespondCount(q, s, a, n) ==
    [q EXCEPT !.pc = "done", !.status = s, !.active = a, !.count = n]
Goto(q, pc) == [q EXCEPT !.pc = pc]

Set(r, q) == reqs' = [reqs EXCEPT ![r] = q]

\* the server accepts a request: env.max bounds the behaviour, env.conc the
\* requests in flight
Arrive(env, q) ==
    /\ Len(reqs) < env.max
    /\ Cardinality(InFlight) < env.conc
    /\ reqs' = Append(reqs, q)
    /\ UNCHANGED <<store, now>>

\* ------------------------------------------------ like and save: toggle

\* the synchronous prefix of POST /posts/like and POST /posts/save
ToggleArrive(env, kind, hdr, rawPost, rawUser) ==
    LET postId == parseInt(rawPost)
        userId == parseInt(rawUser)
        q == Request(env, kind, hdr, postId, userId, NoBody)
    IN  IF Falsy(postId) \/ Falsy(userId) THEN Respond(q, 400) ELSE Goto(q, "findPost")

\* one await of the toggle handler; `catch` is the status of its catch block
ToggleStep(r, kind, catch) ==
    LET q == reqs[r] IN
    /\ q.op = kind
    /\ UNCHANGED <<users, posts, comments, now>>
    /\ \/ /\ q.pc = "findPost"
          /\ Set(r, IF findUniquePost(q.postId) = {} THEN Respond(q, 404)
                    ELSE Goto(q, "findRow"))
          /\ UNCHANGED <<rows, nextId>>
       \/ /\ q.pc = "findRow"
          /\ LET e == findUniqueRow(kind, q.userId, q.postId) IN
             Set(r, IF e = {} THEN Goto(q, "create")
                    ELSE [q EXCEPT !.pc = "delete", !.found = (CHOOSE x \in e : TRUE).id])
          /\ UNCHANGED <<rows, nextId>>
       \/ /\ q.pc = "delete"
          /\ IF \E x \in rows[kind] : x.id = q.found
             THEN /\ rows' = [rows EXCEPT ![kind] = {x \in @ : x.id # q.found}]
                  /\ Set(r, [q EXCEPT !.pc = "count", !.active = FALSE, !.wrote = "delete"])
             ELSE /\ Set(r, Catch(q, "P2025", catch))
                  /\ UNCHANGED rows
          /\ UNCHANGED nextId
       \/ /\ q.pc = "create"
          /\ IF CanCreateRow(kind, q.userId, q.postId)
             THEN /\ InsertRow(kind, q.userId, q.postId)
                  /\ Set(r, [q EXCEPT !.pc = "count", !.active = TRUE, !.wrote = "create"])
             ELSE /\ Set(r, Catch(q, CreateError(kind, q.userId, q.postId), catch))
                  /\ UNCHANGED <<rows, nextId>>
       \/ /\ q.pc = "count"
          /\ Set(r, RespondCount(q, 200, q.active, countRows(kind, q.postId)))
          /\ UNCHANGED <<rows, nextId>>

\* router.post('/like')
PostLike(env) ==
    \/ \E h \in env.hdrs, p \in env.postIds, u \in env.userIds :
          Arrive(env, ToggleArrive(env, "like", h, p, u))
    \/ \E r \in InFlight : ToggleStep(r, "like", 400)

\* router.post('/save')
PostSave(env) ==
    \/ \E h \in env.hdrs, p \in env.postIds, u \in env.userIds :
          Arrive(env, ToggleArrive(env, "save", h, p, u))
    \/ \E r \in InFlight : ToggleStep(r, "save", 400)

\* --------------------------------------------------------- share: record

PostShareAsToggle(env) ==
    \/ \E h \in env.hdrs, p \in env.postIds, u \in env.userIds :
          Arrive(env, ToggleArrive(env, "share", h, p, u))
    \/ \E r \in InFlight : ToggleStep(r, "share", 500)

\* router.post('/share')
PostShare(env) ==
    \/ \E h \in env.hdrs, p \in env.postIds, u \in env.userIds :
          LET postId == parseInt(p)
              userId == parseInt(u)
              q == Request(env, "share", h, postId, userId, NoBody)
          IN  Arrive(env, IF Falsy(postId) \/ Falsy(userId) THEN Respond(q, 400)
                          ELSE Goto(q, "findPost"))
    \/ \E r \in InFlight :
          LET q == reqs[r] IN
          /\ q.op = "share"
          /\ UNCHANGED <<users, posts, comments, now>>
          /\ \/ /\ q.pc = "findPost"
                /\ Set(r, IF findUniquePost(q.postId) = {} THEN Respond(q, 404)
                          ELSE Goto(q, "findRow"))
                /\ UNCHANGED <<rows, nextId>>
             \/ /\ q.pc = "findRow"
                /\ Set(r, IF findUniqueRow("share", q.userId, q.postId) = {}
                          THEN Goto(q, "create")
                          ELSE [q EXCEPT !.pc = "count", !.active = TRUE])
                /\ UNCHANGED <<rows, nextId>>
             \/ /\ q.pc = "create"
                /\ IF CanCreateRow("share", q.userId, q.postId)
                   THEN /\ InsertRow("share", q.userId, q.postId)
                        /\ Set(r, [q EXCEPT !.pc = "count", !.active = TRUE,
                                               !.wrote = "create"])
                   ELSE /\ Set(r, Catch(q, CreateError("share", q.userId, q.postId), 500))
                        /\ UNCHANGED <<rows, nextId>>
             \/ /\ q.pc = "count"
                /\ Set(r, RespondCount(q, 200, q.active, countRows("share", q.postId)))
                /\ UNCHANGED <<rows, nextId>>

\* ----------------------------------------------------------- read: upsert

UpsertReadAllOfPost(userId, postId) ==
    IF UniqueOk("read", userId, postId)
    THEN InsertRow("read", userId, postId)
    ELSE /\ rows' = [rows EXCEPT !["read"] =
                {IF x.postId = postId THEN [x EXCEPT !.createdAt = now] ELSE x : x \in @}]
         /\ UNCHANGED nextId

UpsertReadKeep(userId, postId) ==
    IF UniqueOk("read", userId, postId)
    THEN InsertRow("read", userId, postId)
    ELSE UNCHANGED <<rows, nextId>>

\* prisma.read.upsert: the row of (userId, postId) gets createdAt = new Date(),
\* or is created
UpsertRead(userId, postId) ==
    IF UniqueOk("read", userId, postId)
    THEN InsertRow("read", userId, postId)
    ELSE /\ rows' = [rows EXCEPT !["read"] =
                {IF x.userId = userId /\ x.postId = postId
                 THEN [x EXCEPT !.createdAt = now] ELSE x : x \in @}]
         /\ UNCHANGED nextId

\* router.post('/read')
PostRead(env) ==
    \/ \E h \in env.hdrs, p \in env.postIds, u \in env.userIds :
          LET postId == parseInt(p)
              userId == parseInt(u)
              q == Request(env, "read", h, postId, userId, NoBody)
          IN  Arrive(env, IF Falsy(postId) THEN Respond(q, 400)
                          ELSE IF Falsy(userId) THEN Respond(q, 400)
                          ELSE Goto(q, "findPost"))
    \/ \E r \in InFlight :
          LET q == reqs[r] IN
          /\ q.op = "read"
          /\ UNCHANGED <<users, posts, comments, now>>
          /\ \/ /\ q.pc = "findPost"
                /\ Set(r, IF findUniquePost(q.postId) = {} THEN Respond(q, 404)
                          ELSE Goto(q, "upsert"))
                /\ UNCHANGED <<rows, nextId>>
             \/ /\ q.pc = "upsert"
                /\ IF ForeignKeysOk(q.userId, q.postId)
                   THEN /\ UpsertRead(q.userId, q.postId)
                        /\ Set(r, [q EXCEPT !.pc = "count",
                                     !.wrote = IF UniqueOk("read", q.userId, q.postId)
                                               THEN "create" ELSE "update"])
                   ELSE /\ Set(r, Catch(q, "P2003", 500))
                        /\ UNCHANGED <<rows, nextId>>
             \/ /\ q.pc = "count"
                /\ Set(r, RespondCount(q, 200, q.active, countRows("read", q.postId)))
                /\ UNCHANGED <<rows, nextId>>

\* ------------------------------------------------------ status queries

\* req.query.userId ? parseInt(req.query.userId) : null, with null as NaN
QueryUser(raw) == parseInt(raw)

\* GET /:id/like-status, /save-status, /share-status: `op` names the query,
\* `kind` its table, `catch` the status of its catch block
StatusQuery(env, op, kind, catch) ==
    \/ \E p \in env.postIds, u \in env.queryUsers :
          LET postId == parseInt(p)
              q == Request(env, op, NoHeader, postId, QueryUser(u), NoBody)
          IN  Arrive(env, IF Falsy(postId) THEN Respond(q, 400) ELSE Goto(q, "findPost"))
    \/ \E r \in InFlight :
          LET q == reqs[r] IN
          /\ q.op = op
          /\ UNCHANGED <<store, now>>
          /\ \/ /\ q.pc = "findPost"
                /\ Set(r, IF findUniquePost(q.postId) = {} THEN Respond(q, 404)
                          ELSE Goto(q, "count"))
             \/ /\ q.pc = "count"
                /\ Set(r, IF Falsy(q.userId)
                          THEN RespondCount(q, 200, FALSE, countRows(kind, q.postId))
                          ELSE [q EXCEPT !.pc = "findRow",
                                         !.count = countRows(kind, q.postId)])
             \/ /\ q.pc = "findRow"
                /\ Set(r, RespondCount(q, 200,
                                       findUniqueRow(kind, q.userId, q.postId) # {}, q.count))

\* router.get('/:id/like-status')
LikeStatus(env) == StatusQuery(env, "likeStatus", "like", 500)

\* router.get('/:id/save-status')
SaveStatus(env) == StatusQuery(env, "saveStatus", "save", 400)

\* router.get('/:id/share-status'): the row is looked up before the count
ShareStatus(env) ==
    \/ \E p \in env.postIds, u \in env.queryUsers :
          LET postId == parseInt(p)
              q == Request(env, "shareStatus", NoHeader, postId, QueryUser(u), NoBody)
          IN  Arrive(env, IF Falsy(postId) THEN Respond(q, 400) ELSE Goto(q, "findPost"))
    \/ \E r \in InFlight :
          LET q == reqs[r] IN
          /\ q.op = "shareStatus"
          /\ UNCHANGED <<store, now>>
          /\ \/ /\ q.pc = "findPost"
                /\ Set(r, IF findUniquePost(q.postId) = {} THEN Respond(q, 404)
                          ELSE IF Falsy(q.userId) THEN Goto(q, "count")
                          ELSE Goto(q, "findRow"))
             \/ /\ q.pc = "findRow"
                /\ Set(r, [q EXCEPT !.pc = "count",
                             !.active = findUniqueRow("share", q.userId, q.postId) # {}])
             \/ /\ q.pc = "count"
                /\ Set(r, RespondCount(q, 200, q.active, countRows("share", q.postId)))

\* router.get('/:id/read')
ReadStatus(env) ==
    \/ \E p \in env.postIds :
          LET postId == parseInt(p)
              q == Request(env, "readStatus", NoHeader, postId, NaN, NoBody)
          IN  Arrive(env, IF Falsy(postId) THEN Respond(q, 400) ELSE Goto(q, "findPost"))
    \/ \E r \in InFlight :
          LET q == reqs[r] IN
          /\ q.op = "readStatus"
          /\ UNCHANGED <<store, now>>
          /\ \/ /\ q.pc = "findPost"
                /\ Set(r, IF findUniquePost(q.postId) = {} THEN Respond(q, 404)
                          ELSE Goto(q, "count"))
             \/ /\ q.pc = "count"
                /\ Set(r, RespondCount(q, 200, q.active, countRows("read", q.postId)))

\* ---------------------------------------------------- validation.js: Joi

PostKeys == {"title", "content", "published"}

\* createPostSchema.validate(req.body) reports no error
createPostSchema(body) ==
    /\ body.keys \subseteq PostKeys
    /\ "title" \in body.keys /\ body.title # ""
    /\ "content" \in body.keys /\ body.content # ""

updatePostSchemaNoMin(body) ==
    /\ body.keys \subseteq PostKeys
    /\ "title" \in body.keys => body.title # ""
    /\ "content" \in body.keys => body.content # ""

\* updatePostSchema.validate(req.body) reports no error
updatePostSchema(body) ==
    /\ body.keys \subseteq PostKeys
    /\ body.keys # {}
    /\ "title" \in body.keys => body.title # ""
    /\ "content" \in body.keys => body.content # ""

\* the chain authenticateToken, validate(schema), handler: the request as the
\* chain leaves it, `valid` being the verdict of the schema on the body
GuardThenValidate(q, valid, pc) ==
    LET a == authenticateToken(q.hdr) IN
    IF a.status # 0 THEN Respond(q, a.status)
    ELSE IF ~ valid THEN Respond([q EXCEPT !.caller = a.userId], 400)
    ELSE [q EXCEPT !.caller = a.userId, !.pc = pc]

\* ------------------------------------------------------------ the posts

\* router.get('/:id')
GetPost(env) ==
    \/ \E p \in env.postIds :
          Arrive(env, Goto(Request(env, "get", NoHeader, parseInt(p), NaN, NoBody), "findPost"))
    \/ \E r \in InFlight :
          LET q == reqs[r] IN
          /\ q.op = "get" /\ q.pc = "findPost"
          /\ Set(r, IF findUniquePost(q.postId) = {} THEN Respond(q, 404) ELSE Respond(q, 200))
          /\ UNCHANGED <<store, now>>

NewPostIdLowestFree ==
    CHOOSE i \in 1..(Cardinality(posts) + 1) :
        /\ ~ \E p \in posts : p.id = i
        /\ \A j \in 1..(i - 1) : \E p \in posts : p.id = j

\* id Int @id @default(autoincrement()) of Post
NewPostId == nextId["post"]

\* router.post('/'): createPostLimiter is not modelled
CreatePost(env) ==
    \/ \E h \in env.hdrs, b \in env.newPosts :
          Arrive(env, GuardThenValidate(Request(env, "create", h, NaN, NaN, b),
                                        createPostSchema(b), "create"))
    \/ \E r \in InFlight :
          LET q == reqs[r] IN
          /\ q.op = "create" /\ q.pc = "create"
          /\ IF \E u \in users : u.id = q.caller
             THEN /\ posts' = posts \cup
                        {[id |-> NewPostId, title |-> q.body.title,
                          content |-> q.body.content,
                          published |-> IF "published" \in q.body.keys
                                        THEN q.body.published ELSE FALSE,
                          authorId |-> q.caller]}
                  /\ nextId' = [nextId EXCEPT !["post"] = @ + 1]
                  /\ Set(r, [Respond(q, 201) EXCEPT !.found = NewPostId,
                                                    !.wrote = "create"])
             ELSE /\ Set(r, Catch(q, "P2003", 500))
                  /\ UNCHANGED <<posts, nextId>>
          /\ UNCHANGED <<users, rows, comments, now>>

OwnershipSkipped(post, caller) == TRUE

CheckPostOwnerFirst(q, pc) ==
    LET found == findUniquePost(q.postId) IN
    IF \A p \in found : p.authorId # q.caller THEN Respond(q, 403)
    ELSE Goto(q, pc)

\* existingPost.authorId !== req.userId does not hold
Ownership(post, caller) == post.authorId = caller

\* the answer to findUnique in PUT and DELETE: 404, 403 or on to the write
CheckPost(q, pc) ==
    LET found == findUniquePost(q.postId) IN
    IF found = {} THEN Respond(q, 404)
    ELSE IF ~ Ownership(CHOOSE p \in found : TRUE, q.caller) THEN Respond(q, 403)
    ELSE Goto(q, pc)

UpdatedPostReassigned(post, body) ==
    [post EXCEPT !.title = IF "title" \in body.keys THEN body.title ELSE @,
                 !.authorId = (@ % 2) + 1]

UpdatedPostAllFields(post, body) ==
    [post EXCEPT !.title = body.title, !.content = body.content,
                 !.published = body.published]

\* prisma.post.update: undefined fields of data are left as they are
UpdatedPost(post, body) ==
    [post EXCEPT !.title = IF "title" \in body.keys THEN body.title ELSE @,
                 !.content = IF "content" \in body.keys THEN body.content ELSE @,
                 !.published = IF "published" \in body.keys THEN body.published ELSE @]

\* router.put('/:id')
UpdatePost(env) ==
    \/ \E h \in env.hdrs, p \in env.postIds, b \in env.updates :
          Arrive(env, GuardThenValidate(Request(env, "update", h, parseInt(p), NaN, b),
                                        updatePostSchema(b), "findPost"))
    \/ \E r \in InFlight :
          LET q == reqs[r] IN
          /\ q.op = "update"
          /\ UNCHANGED <<users, rows, comments, nextId, now>>
          /\ \/ /\ q.pc = "findPost"
                /\ Set(r, CheckPost(q, "update"))
                /\ UNCHANGED posts
             \/ /\ q.pc = "update"
                /\ IF findUniquePost(q.postId) # {}
                   THEN /\ posts' = {IF p.id = q.postId THEN UpdatedPost(p, q.body) ELSE p :
                                        p \in posts}
                        /\ Set(r, [Respond(q, 200) EXCEPT !.wrote = "update"])
                   ELSE /\ Set(r, Catch(q, "P2025", 404))
                        /\ UNCHANGED posts

CascadeExceptReads(kind, table, postId) ==
    IF kind = "read" THEN table ELSE {x \in table : x.postId # postId}

\* onDelete: Cascade of the relation to Post: what is left of a table
Cascade(kind, table, postId) == {x \in table : x.postId # postId}

\* router.delete('/:id')
DeletePost(env) ==
    \/ \E h \in env.hdrs, p \in env.postIds :
          Arrive(env, GuardThenValidate(Request(env, "delete", h, parseInt(p), NaN, NoBody),
                                        TRUE, "findPost"))
    \/ \E r \in InFlight :
          LET q == reqs[r] IN
          /\ q.op = "delete"
          /\ UNCHANGED <<users, nextId, now>>
          /\ \/ /\ q.pc = "findPost"
                /\ Set(r, CheckPost(q, "delete"))
                /\ UNCHANGED <<posts, rows, comments>>
             \/ /\ q.pc = "delete"
                /\ IF findUniquePost(q.postId) # {}
                   THEN /\ posts' = {p \in posts : p.id # q.postId}
                        /\ rows' = [k \in Kinds |-> Cascade(k, rows[k], q.postId)]
                        /\ comments' = Cascade("comment", comments, q.postId)
                        /\ Set(r, [Respond(q, 200) EXCEPT !.wrote = "delete"])
                   ELSE /\ Set(r, Catch(q, "P2025", 404))
                        /\ UNCHANGED <<posts, rows, comments>>

\* --------------------------------------------------------- the comments

\* router.post('/comment')
PostComment(env) ==
    \/ \E h \in env.hdrs, p \in env.postIds, u \in env.userIds, b \in env.comments :
          LET postId == parseInt(p)
              userId == parseInt(u)
              q == Request(env, "comment", h, postId, userId, b)
          IN  Arrive(env, IF Falsy(postId) THEN Respond(q, 400)
                          ELSE IF Falsy(userId) THEN Respond(q, 400)
                          ELSE Goto(q, "findPost"))
    \/ \E r \in InFlight :
          LET q == reqs[r] IN
          /\ q.op = "comment"
          /\ UNCHANGED <<users, posts, rows, now>>
          /\ \/ /\ q.pc = "findPost"
                /\ Set(r, IF findUniquePost(q.postId) = {} THEN Respond(q, 404)
                          ELSE Goto(q, "create"))
                /\ UNCHANGED <<comments, nextId>>
             \/ /\ q.pc = "create"
                /\ IF ForeignKeysOk(q.userId, q.postId)
                   THEN /\ comments' = comments \cup
                              {[id |-> nextId["comment"], userId |-> q.userId,
                                postId |-> q.postId, content |-> q.body.content]}
                        /\ nextId' = [nextId EXCEPT !["comment"] = @ + 1]
                        /\ Set(r, [Respond(q, 201) EXCEPT !.found = nextId["comment"],
                                                          !.wrote = "create"])
                   ELSE /\ Set(r, Catch(q, "P2003", 500))
                        /\ UNCHANGED <<comments, nextId>>

\* ------------------------------------------------------- initial states

\* a token of the user, issued at register or login one tick ago, and one
\* issued TokenTTL ago
Tok(userId) == generateToken(userId, TokenTTL - 1)
Expired(userId) == generateToken(userId, 0)

\* the wall clock advances
Tick ==
    /\ now < MaxTime
    /\ now' = now + 1
    /\ UNCHANGED <<store, reqs>>

User(id) == [id |-> id, email |-> id, username |-> id, password |-> id]
Post(id, authorId) ==
    [id |-> id, title |-> "t1", content |-> "c1", published |-> FALSE, authorId |-> authorId]
Row(id, userId, postId) == [id |-> id, userId |-> userId, postId |-> postId, createdAt |-> 1]
Comment(id, userId, postId) == [id |-> id, userId |-> userId, postId |-> postId, content |-> "hi"]

\* two registered users and one post of user 1, nothing else
InitOnePost ==
    /\ users = {User(1), User(2)}
    /\ posts = {Post(1, 1)}
    /\ rows = [k \in Kinds |-> {}]
    /\ comments = {}
    /\ nextId = [t \in Tables |-> CASE t = "user" -> 3 [] t = "post" -> 2 [] OTHER -> 1]
    /\ now = TokenTTL
    /\ reqs = <<>>

\* two registered users with a post each; each has liked, saved, shared and
\* read the other's post, and there are comments on both posts
InitBusy ==
    /\ users = {User(1), User(2)}
    /\ posts = {Post(1, 1), Post(2, 2)}
    /\ rows = [k \in Kinds |-> {Row(1, 2, 1), Row(2, 1, 2)}]
    /\ comments = {Comment(1, 2, 1), Comment(2, 2, 1), Comment(3, 1, 2)}
    /\ nextId = [t \in Tables |-> IF t = "comment" THEN 4 ELSE 3]
    /\ now = TokenTTL
    /\ reqs = <<>>

\* ------------------------------------- sequential engagement requests

SeqEnv ==
    [max |-> MaxSeqRequests, conc |-> 1, hist |-> TRUE,
     hdrs |-> {NoHeader, Bearer(Tok(1))},
     postIds |-> {Num(1)}, userIds |-> {Num(1), Num(2), Num(3)}]

NextSeq == PostLike(SeqEnv) \/ PostSave(SeqEnv) \/ PostShare(SeqEnv)

SpecSeq == InitOnePost /\ [][NextSeq]_vars

\* ------------------------------------- concurrent engagement requests

ConcEnv ==
    [max |-> MaxRequests, conc |-> MaxInFlight, hist |-> FALSE,
     hdrs |-> {NoHeader},
     postIds |-> {Num(1)}, userIds |-> {Num(1), Num(2)}]

\* saves and reads come from user 1 alone
ConcEnv1 == [ConcEnv EXCEPT !.userIds = {Num(1)}]

NextConc ==
    \/ PostLike(ConcEnv)
    \/ PostSave(ConcEnv1)
    \/ PostShare(ConcEnv)
    \/ PostRead(ConcEnv1)

SpecConc == InitOnePost /\ [][NextConc]_vars

\* ------------------------- posts: update and delete, with engagement

Title(t) == [keys |-> {"title"}, title |-> t, content |-> "", published |-> FALSE]

PostsEnv ==
    [max |-> MaxPostRequests, conc |-> MaxInFlight, hist |-> FALSE,
     hdrs |-> {Bearer(Tok(1)), Bearer(Tok(2))},
     postIds |-> {Num(1), Num(3)},
     updates |-> {Title("t2"), NoBody}]

EngageEnv ==
    [max |-> MaxPostRequests, conc |-> MaxInFlight, hist |-> FALSE,
     hdrs |-> {NoHeader}, postIds |-> {Num(1)}, userIds |-> {Num(1)},
     comments |-> {[NoBody EXCEPT !.keys = {"content"}, !.content = "hello"]}]

Next ==
    \/ UpdatePost(PostsEnv)
    \/ DeletePost(PostsEnv)
    \/ PostLike(EngageEnv)
    \/ PostComment(EngageEnv)

Spec == InitBusy /\ [][Next]_vars

\* ------------------------------------------------- the guarded routes

GuardEnv ==
    [max |-> MaxSeqRequests, conc |-> 1, hist |-> FALSE,
     hdrs |-> {NoHeader, <<Word("Bearer")>>, Bearer(Tok(1)), Bearer(Expired(1)),
               Bearer(Forged(2))},
     postIds |-> {Num(1)},
     updates |-> {Title("t2")},
     newPosts |-> {[keys |-> {"title", "content"}, title |-> "t3", content |-> "c3",
                    published |-> FALSE]}]

NextGuard ==
    \/ CreatePost(GuardEnv)
    \/ UpdatePost(GuardEnv)
    \/ DeletePost(GuardEnv)
    \/ Tick

SpecGuard == InitOnePost /\ [][NextGuard]_vars

\* ------------------------------------------------ after a post is gone

GoneEnv ==
    [max |-> MaxSeqRequests, conc |-> 1, hist |-> TRUE,
     hdrs |-> {Bearer(Tok(1))},
     postIds |-> {Num(1)},
     userIds |-> {Num(2), NotNum},
     queryUsers |-> {Num(2)},
     newPosts |-> {[keys |-> {"title", "content"}, title |-> "t3", content |-> "c3",
                    published |-> FALSE]}]

NextGone ==
    \/ DeletePost(GoneEnv)
    \/ CreatePost(GoneEnv)
    \/ GetPost(GoneEnv)
    \/ PostLike(GoneEnv)
    \/ PostSave(GoneEnv)
    \/ PostShare(GoneEnv)
    \/ PostRead(GoneEnv)
    \/ LikeStatus(GoneEnv)
    \/ SaveStatus(GoneEnv)
    \/ ShareStatus(GoneEnv)
    \/ ReadStatus(GoneEnv)

SpecGone == InitOnePost /\ [][NextGone]_vars

\* ----------------------------------- status queries between the writes

StatusEnv ==
    [max |-> MaxSeqRequests, conc |-> 1, hist |-> FALSE,
     hdrs |-> {NoHeader}, postIds |-> {Num(1)}, userIds |-> {Num(2)},
     queryUsers |-> {Num(1), Num(2), NotNum}]

\* user 2 toggles the like of post 1, user 1 records a read of it
NextStatus ==
    \/ PostLike(StatusEnv)
    \/ PostRead([StatusEnv EXCEPT !.userIds = {Num(1)}])
    \/ LikeStatus(StatusEnv)
    \/ SaveStatus(StatusEnv)
    \/ ShareStatus(StatusEnv)
    \/ ReadStatus(StatusEnv)

SpecStatus == InitBusy /\ [][NextStatus]_vars

\* --------------------------- every route that writes, two at a time

AllEnv ==
    [max |-> MaxPostRequests, conc |-> MaxInFlight, hist |-> FALSE,
     hdrs |-> {Bearer(Tok(1))}, postIds |-> {Num(1)},
     userIds |-> {Num(1), Num(2)}, queryUsers |-> {Num(2)},
     updates |-> {Title("t2")},
     comments |-> {[NoBody EXCEPT !.keys = {"content"}, !.content = "hello"]}]

NextAll ==
    \/ PostLike(AllEnv)
    \/ PostSave(AllEnv)
    \/ PostShare(AllEnv)
    \/ PostRead(AllEnv)
    \/ PostComment(AllEnv)
    \/ UpdatePost(AllEnv)
    \/ DeletePost(AllEnv)
    \/ LikeStatus(AllEnv)
    \/ SaveStatus(AllEnv)
    \/ ShareStatus(AllEnv)
    \/ ReadStatus(AllEnv)

SpecAll == InitBusy /\ [][NextAll]_vars

\* ------------------------------- shares and reads as the clock advances

TouchEnv ==
    [max |-> MaxSeqRequests, conc |-> 1, hist |-> TRUE,
     hdrs |-> {NoHeader}, postIds |-> {Num(1)}, userIds |-> {Num(1), Num(2)}]

NextTouch ==
    \/ PostShare(TouchEnv)
    \/ PostRead(TouchEnv)
    \/ Tick

SpecTouch == InitOnePost /\ [][NextTouch]_vars

\* --------------------------------------------- a store that can fail

\* the status the catch block of each handler answers with
CatchStatus(op) == IF op \in {"like", "save", "saveStatus"} THEN 400 ELSE 500

\* the store call a request is waiting for throws (P1001: the database cannot
\* be reached) and the handler's catch block answers
StoreFault ==
    \E r \in InFlight :
        /\ Set(r, Catch(reqs[r], "P1001", CatchStatus(reqs[r].op)))
        /\ UNCHANGED <<store, now>>

FaultEnv ==
    [max |-> MaxSeqRequests, conc |-> 1, hist |-> FALSE,
     hdrs |-> {NoHeader}, postIds |-> {Num(1)}, userIds |-> {Num(1)},
     queryUsers |-> {Num(1)}]

NextFault ==
    \/ PostLike(FaultEnv)
    \/ PostSave(FaultEnv)
    \/ PostShare(FaultEnv)
    \/ PostRead(FaultEnv)
    \/ LikeStatus(FaultEnv)
    \/ SaveStatus(FaultEnv)
    \/ ShareStatus(FaultEnv)
    \/ ReadStatus(FaultEnv)
    \/ StoreFault

SpecFault == InitOnePost /\ [][NextFault]_vars

\* ------------------------------------ engagement requests, ill-formed

BadEnv ==
    [max |-> MaxPostRequests, conc |-> 1, hist |-> FALSE,
     hdrs |-> {NoHeader},
     postIds |-> {Num(1), Num(3), Num(0), NotNum},
     userIds |-> {Num(2), Num(0), NotNum}]

NextBad ==
    \/ PostLike(BadEnv)
    \/ PostSave(BadEnv)
    \/ PostShare(BadEnv)
    \/ PostRead(BadEnv)

SpecBad == InitBusy /\ [][NextBad]_vars

\* ------------------------------------------------------------ the search

SearchKeys == {"q", "published", "sortBy"}

\* req.query of GET /search: `content` holds q, `title` holds sortBy and
\* `published` is published === 'true'; a parameter is given when it is in keys
SearchQuery(keys, q, published, sortBy) ==
    [keys |-> keys, title |-> sortBy, content |-> q, published |-> published]

\* !q: q is absent or the empty string
NoQ(query) == "q" \notin query.keys \/ query.content = ""

\* the posts whereConditions selects: titles and contents are single words, so
\* `contains` is equality; the author's names are not modelled
searchMatches(query) ==
    {p \in posts :
        /\ p.title = query.content \/ p.content = query.content
        /\ "published" \in query.keys => p.published = query.published}

\* orderBy: { [sortBy]: order } names a column of Post
SortableBy(query) == "sortBy" \in query.keys => query.title \in {"createdAt", "title"}

\* router.get('/search'): authenticateToken, then the handler
SearchPosts(env) ==
    \/ \E h \in env.hdrs, query \in env.queries :
          LET q == Request(env, "search", h, NaN, NaN, query)
              a == authenticateToken(h)
          IN  Arrive(env, IF a.status # 0 THEN Respond(q, a.status)
                          ELSE IF NoQ(query) THEN Respond([q EXCEPT !.caller = a.userId], 400)
                          ELSE [q EXCEPT !.caller = a.userId, !.pc = "findMany"])
    \/ \E r \in InFlight :
          LET q == reqs[r] IN
          /\ q.op = "search" /\ q.pc = "findMany"
          /\ Set(r, IF SortableBy(q.body)
                    THEN RespondCount(q, 200, FALSE, Cardinality(searchMatches(q.body)))
                    ELSE Catch(q, "PrismaClientValidationError", 500))
          /\ UNCHANGED <<store, now>>

SearchEnv ==
    [max |-> MaxPostRequests, conc |-> 1, hist |-> FALSE,
     hdrs |-> {NoHeader, Bearer(Tok(1)), Bearer(Forged(2))},
     queries |-> {SearchQuery(k, q, FALSE, s) :
                     k \in SUBSET SearchKeys, q \in {"", "t1"}, s \in {"title", "bogus"}}]

NextSearch == SearchPosts(SearchEnv)

SpecSearch == InitBusy /\ [][NextSearch]_vars

\* --------------------------------------------------- the list of posts

\* parseInt(raw) || d
OrDefault(n, d) == IF Falsy(n) THEN d ELSE n

ceilFloor(a, b) == a \div b

\* Math.ceil(a / b) for a >= 0, b >= 1
ceil(a, b) == (a + b - 1) \div b

\* whereConditions of the list: the authorId filter, when the parameter is given
listWhere(author) ==
    {p \in posts : author.t = "num" => p.authorId = parseInt(author)}

\* findMany with orderBy createdAt desc, skip, take: posts are created in the
\* order of their ids, so the newest has the greatest id
findManyPage(author, skip, take) ==
    {p.id : p \in {x \in listWhere(author) :
                      LET newer == Cardinality({y \in listWhere(author) : y.id > x.id})
                      IN  skip <= newer /\ newer < skip + take}}

\* the pagination block of the response
Pagination(page, limit, totalPosts) ==
    LET totalPages == ceil(totalPosts, limit) IN
    [totalPages |-> totalPages,
     hasNextPage |-> page < totalPages,
     hasPrevPage |-> page > 1]

\* router.get('/'): the published filter is never given here
ListPosts(env) ==
    \/ \E p \in env.pages, l \in env.limits, a \in env.authors :
          LET page == OrDefault(parseInt(p), 1)
              limit == OrDefault(parseInt(l), 10)
          IN  Arrive(env, [op |-> "list", pc |-> "findMany", status |-> 0, err |-> "",
                           page |-> page, limit |-> limit, author |-> a,
                           offset |-> (page - 1) * limit, items |-> {}, totalPosts |-> 0,
                           pagination |-> Pagination(1, 1, 0)])
    \/ \E r \in InFlight :
          LET q == reqs[r] IN
          /\ q.op = "list"
          /\ UNCHANGED <<store, now>>
          /\ \/ /\ q.pc = "findMany"
                /\ Set(r, [q EXCEPT !.pc = "count",
                                    !.items = findManyPage(q.author, q.offset, q.limit)])
             \/ /\ q.pc = "count"
                /\ LET totalPosts == Cardinality(listWhere(q.author)) IN
                   Set(r, [q EXCEPT !.pc = "done", !.status = 200,
                                    !.totalPosts = totalPosts,
                                    !.pagination = Pagination(q.page, q.limit, totalPosts)])

\* posts 1..n, written in turn by user 1 and user 2
InitList(n) ==
    /\ users = {User(1), User(2)}
    /\ posts = {Post(i, 2 - (i % 2)) : i \in 1..n}
    /\ rows = [k \in Kinds |-> {}]
    /\ comments = {}
    /\ nextId = [t \in Tables |-> CASE t = "user" -> 3 [] t = "post" -> n + 1 [] OTHER -> 1]
    /\ now = TokenTTL
    /\ reqs = <<>>

ListEnv ==
    [max |-> MaxPostRequests, conc |-> 1, hist |-> FALSE,
     pages |-> {NotNum, Num(0), Num(1), Num(2), Num(3), Num(4)},
     limits |-> {NotNum, Num(1), Num(3), Num(10)},
     authors |-> {NotNum, Num(2)}]

NextList == ListPosts(ListEnv)

\* the store holds no post, or 3, 10 or 25 of them
InitLists == \E n \in {0, 3, 10, 25} : InitList(n)

SpecList == InitLists /\ [][NextList]_vars

\* -------------------------------------------------- register and login

\* emails and usernames are numbers, 0 standing for a missing or ill-formed
\* one; a password is named by its length, 0 for a missing or empty one
registerSchema(b) == b.email > 0 /\ b.username > 0 /\ b.password >= 6
loginSchema(b) == b.email > 0 /\ b.password > 0

\* bcrypt.hash and bcrypt.compare: the hash is not the password, and compare
\* accepts exactly the password the hash was made from
hashPassword(password) == 100 + password
comparePasswordAny(password, hashed) == TRUE
comparePassword(password, hashed) == hashPassword(password) = hashed

NoToken == Word("")

UserRequest(env, op, email, username, password) ==
    [op |-> op, pc |-> "start", status |-> 0, err |-> "", error |-> "",
     email |-> email, username |-> username, password |-> password,
     hash |-> 0, found |-> 0, token |-> NoToken, wrote |-> "", at |-> now,
     pre |-> IF env.hist THEN users ELSE {}]

RespondError(q, s, error) == [q EXCEPT !.pc = "done", !.status = s, !.error = error]

existingUserBoth(email, username) ==
    {u \in users : u.email = email /\ u.username = username}

\* prisma.user.findFirst({ where: { OR: [{ email }, { username }] } })
existingUser(email, username) ==
    {u \in users : u.email = email \/ u.username = username}

UserUniqueEmailOnly(email, username) ==
    ~ \E u \in users : u.email = email

\* @unique of User.email and User.username
UserUniqueOk(email, username) ==
    ~ \E u \in users : u.email = email \/ u.username = username

\* router.post('/register'): authLimiter is not modelled, firstName and
\* lastName are left out
Register(env) ==
    \/ \E e \in env.emails, u \in env.usernames, p \in env.newPasswords :
          LET q == UserRequest(env, "register", e, u, p) IN
          Arrive(env, IF registerSchema(q) THEN Goto(q, "findFirst")
                      ELSE RespondError(q, 400, "Validation failed"))
    \/ \E r \in InFlight :
          LET q == reqs[r] IN
          /\ q.op = "register"
          /\ UNCHANGED <<posts, rows, comments, now>>
          /\ \/ /\ q.pc = "findFirst"
                /\ Set(r, IF existingUser(q.email, q.username) # {}
                          THEN RespondError(q, 400,
                                   "User with this email or username already exists")
                          ELSE Goto(q, "hash"))
                /\ UNCHANGED <<users, nextId>>
             \/ /\ q.pc = "hash"
                /\ Set(r, [q EXCEPT !.pc = "create", !.hash = hashPassword(q.password)])
                /\ UNCHANGED <<users, nextId>>
             \/ /\ q.pc = "create"
                /\ IF UserUniqueOk(q.email, q.username)
                   THEN /\ users' = users \cup
                              {[id |-> nextId["user"], email |-> q.email,
                                username |-> q.username, password |-> q.hash]}
                        /\ nextId' = [nextId EXCEPT !["user"] = @ + 1]
                        /\ Set(r, [q EXCEPT !.pc = "done", !.status = 201,
                                            !.found = nextId["user"], !.wrote = "create",
                                            !.token = generateToken(nextId["user"], now)])
                   ELSE /\ Set(r, [RespondError(q, 500, "Failed to register user")
                                       EXCEPT !.err = "P2002"])
                        /\ UNCHANGED <<users, nextId>>

\* router.post('/login')
Login(env) ==
    \/ \E e \in env.emails, p \in env.passwords :
          LET q == UserRequest(env, "login", e, 0, p) IN
          Arrive(env, IF loginSchema(q) THEN Goto(q, "findUnique")
                      ELSE RespondError(q, 400, "Validation failed"))
    \/ \E r \in InFlight :
          LET q == reqs[r]
              user == {u \in users : u.email = q.email}
          IN
          /\ q.op = "login"
          /\ UNCHANGED <<store, now>>
          /\ \/ /\ q.pc = "findUnique"
                /\ Set(r, IF user = {} THEN RespondError(q, 401, "Invalid email or password")
                          ELSE [q EXCEPT !.pc = "compare",
                                         !.found = (CHOOSE u \in user : TRUE).id,
                                         !.hash = (CHOOSE u \in user : TRUE).password])
             \/ /\ q.pc = "compare"
                /\ Set(r, IF comparePassword(q.password, q.hash)
                          THEN [q EXCEPT !.pc = "done", !.status = 200,
                                         !.token = generateToken(q.found, now)]
                          ELSE RespondError(q, 401, "Invalid email or password"))

UsersEnv ==
    [max |-> MaxPostRequests, conc |-> MaxInFlight, hist |-> TRUE,
     emails |-> {0, 1, 3}, usernames |-> {1, 3},
     newPasswords |-> {5, 6}, passwords |-> {0, 6, 7}]

NextUsers == Register(UsersEnv) \/ Login(UsersEnv)

SpecUsers == InitOnePost /\ [][NextUsers]_vars

\* ------------------------------------------------- the creation of posts

NewPost(keys, published) ==
    [keys |-> keys, title |-> "t3", content |-> "c3", published |-> published]

CreateEnv ==
    [max |-> MaxSeqRequests, conc |-> 1, hist |-> FALSE,
     hdrs |-> {NoHeader, Bearer(Tok(1)), Bearer(Tok(2)), Bearer(Tok(3)), Bearer(Forged(2))},
     newPosts |-> {NewPost({"title", "content"}, FALSE),
                   NewPost({"title", "content", "published"}, TRUE),
                   NewPost({"title", "content", "authorId"}, FALSE),
                   NewPost({"title"}, FALSE)}]

NextCreate == CreatePost(CreateEnv)

SpecCreate == InitOnePost /\ [][NextCreate]_vars

\* ------------------------------------------------- the user's profile

\* req.body of PUT /users/:id: `title` holds firstName and `content` lastName;
\* a field is given when it is in keys
NameBody(keys, firstName, lastName) ==
    [keys |-> keys, title |-> firstName, content |-> lastName, published |-> FALSE]

\* !firstName || !lastName
NoNames(body) ==
    \/ "firstName" \notin body.keys \/ body.title = ""
    \/ "lastName" \notin body.keys \/ body.content = ""

\* router.put('/:id') of the users: any authenticated caller, whoever the
\* user is
UpdateUser(env) ==
    \/ \E h \in env.hdrs, u \in env.profileIds, b \in env.names :
          LET q == Request(env, "updateUser", h, NaN, parseInt(u), b)
              a == authenticateToken(h)
          IN  Arrive(env, IF a.status # 0 THEN Respond(q, a.status)
                          ELSE IF Falsy(q.userId) \/ NoNames(b)
                               THEN Respond([q EXCEPT !.caller = a.userId], 400)
                          ELSE [q EXCEPT !.caller = a.userId, !.pc = "update"])
    \/ \E r \in InFlight :
          LET q == reqs[r] IN
          /\ q.op = "updateUser" /\ q.pc = "update"
          /\ IF \E u \in users : u.id = q.userId
             THEN /\ users' = {IF u.id = q.userId
                               THEN [u EXCEPT !.firstName = q.body.title,
                                              !.lastName = q.body.content]
                               ELSE u : u \in users}
                  /\ Set(r, [Respond(q, 200) EXCEPT !.wrote = "update"])
             ELSE /\ Set(r, Catch(q, "P2025", 404))
                  /\ UNCHANGED users
          /\ UNCHANGED <<posts, rows, comments, nextId, now>>

\* user `id` registered with a password of id + 5 characters
NamedUser(id) ==
    [id |-> id, email |-> id, username |-> id, password |-> hashPassword(id + 5),
     firstName |-> "f1", lastName |-> "l1"]

\* two registered users with their names and one post of user 1
InitNamed ==
    /\ users = {NamedUser(1), NamedUser(2)}
    /\ posts = {Post(1, 1)}
    /\ rows = [k \in Kinds |-> {}]
    /\ comments = {}
    /\ nextId = [t \in Tables |-> CASE t = "user" -> 3 [] t = "post" -> 2 [] OTHER -> 1]
    /\ now = TokenTTL
    /\ reqs = <<>>

\* ------------------------------------ posts, their authors and profiles

AuthorEnv ==
    [max |-> MaxSeqRequests, conc |-> 1, hist |-> FALSE,
     hdrs |-> {Bearer(Tok(1)), Bearer(Tok(2))},
     postIds |-> {Num(1), Num(2)}, userIds |-> {Num(2)}, profileIds |-> {Num(1)},
     names |-> {NameBody({"firstName", "lastName"}, "f2", "l2"),
                NameBody({"firstName"}, "f2", "")},
     newPosts |-> {NewPost({"title", "content"}, FALSE)},
     updates |-> {Title("t2"), [Title("t2") EXCEPT !.keys = {"title", "authorId"}]}]

NextAuthor ==
    \/ CreatePost(AuthorEnv)
    \/ UpdatePost(AuthorEnv)
    \/ DeletePost(AuthorEnv)
    \/ PostLike(AuthorEnv)
    \/ UpdateUser(AuthorEnv)

SpecAuthor == InitNamed /\ [][NextAuthor]_vars

\* --------------------------------------- tokens, from login to expiry

TokenEnv ==
    [max |-> MaxSeqRequests, conc |-> 1, hist |-> TRUE,
     hdrs |-> {Bearer(generateToken(1, t)) : t \in (TokenTTL - 1)..MaxTime},
     emails |-> {1}, passwords |-> {6, 7},
     postIds |-> {Num(1)}, profileIds |-> {Num(1)},
     names |-> {NameBody({"firstName", "lastName"}, "f2", "l2")},
     updates |-> {Title("t2")}]

NextToken ==
    \/ Login(TokenEnv)
    \/ UpdateUser(TokenEnv)
    \/ UpdatePost(TokenEnv)
    \/ DeletePost(TokenEnv)
    \/ Tick

SpecToken == InitNamed /\ [][NextToken]_vars

\* ------------------------------------------------- the list of comments

countCommentsByUser(postId) == Cardinality({c.userId : c \in {x \in comments : x.postId = postId}})

\* prisma.comment.count({ where: { postId } })
countComments(postId) == Cardinality({c \in comments : c.postId = postId})

\* router.get('/:id/comments'): `found` is the length of the list returned
ListComments(env) ==
    \/ \E p \in env.postIds, u \in env.queryUsers :
          LET postId == parseInt(p)
              userId == parseInt(u)
              q == Request(env, "comments", NoHeader, postId, userId, NoBody)
          IN  Arrive(env, IF Falsy(postId) THEN Respond(q, 400)
                          ELSE IF Falsy(userId) THEN Respond(q, 400)
                          ELSE Goto(q, "findMany"))
    \/ \E r \in InFlight :
          LET q == reqs[r] IN
          /\ q.op = "comments"
          /\ UNCHANGED <<store, now>>
          /\ \/ /\ q.pc = "findMany"
                /\ Set(r, [q EXCEPT !.pc = "count",
                              !.found = Cardinality({c \in comments : c.postId = q.postId})])
             \/ /\ q.pc = "count"
                /\ Set(r, RespondCount(q, 200, FALSE, countComments(q.postId)))

CommentEnv ==
    [max |-> MaxSeqRequests, conc |-> 1, hist |-> FALSE,
     hdrs |-> {Bearer(Tok(1))}, postIds |-> {Num(1)}, userIds |-> {Num(2)},
     queryUsers |-> {Num(1), NotNum},
     updates |-> {Title("t2")},
     comments |-> {[NoBody EXCEPT !.keys = {"content"}, !.content = "hello"]}]

NextComment ==
    \/ PostComment(CommentEnv)
    \/ ListComments(CommentEnv)
    \/ PostLike(CommentEnv)
    \/ UpdatePost(CommentEnv)
    \/ DeletePost(CommentEnv)

SpecComment == InitBusy /\ [][NextComment]_vars

\* --------------------------------------- updates of some of the fields

Fields(keys, title, content, published) ==
    [keys |-> keys, title |-> title, content |-> content, published |-> published]

UpdateEnv ==
    [max |-> MaxPostRequests, conc |-> MaxInFlight, hist |-> FALSE,
     hdrs |-> {Bearer(Tok(1))}, postIds |-> {Num(1)}, userIds |-> {Num(1)},
     updates |-> {Fields({"title"}, "t2", "", FALSE),
                  Fields({"content"}, "", "c2", FALSE),
                  Fields({"published"}, "", "", TRUE),
                  Fields({"title", "published"}, "t3", "", TRUE),
                  NoBody},
     comments |-> {[NoBody EXCEPT !.keys = {"content"}, !.content = "hello"]}]

NextUpdate ==
    \/ UpdatePost(UpdateEnv)
    \/ PostLike(UpdateEnv)
    \/ PostComment(UpdateEnv)

SpecUpdate == InitBusy /\ [][NextUpdate]_vars

\* -------------------------------------- two likes of a pair with a row

RaceEnv ==
    [max |-> MaxPostRequests, conc |-> MaxInFlight, hist |-> TRUE,
     hdrs |-> {NoHeader}, postIds |-> {Num(1), Num(2)}, userIds |-> {Num(1), Num(2)}]

NextRace == PostLike(RaceEnv)

SpecRace == InitBusy /\ [][NextRace]_vars

\* ------------------------------------------- registrations, two at a time

RegisterEnv ==
    [max |-> MaxPostRequests, conc |-> MaxInFlight, hist |-> TRUE,
     emails |-> {1, 3, 4}, usernames |-> {3, 4}, newPasswords |-> {6}]

NextRegister == Register(RegisterEnv)

SpecRegister == InitOnePost /\ [][NextRegister]_vars

\* ------------------------------------------------------------- C1 and C5

UserExists(userId) == \E u \in users : u.id = userId
PostExists(postId) == \E p \in posts : p.id = postId

\* requests i and i+1 are answered calls of the same operation by the same
\* user on the same post, the user and the post exist
TwiceInSequence(i, op) ==
    /\ i + 1 <= Len(reqs)
    /\ reqs[i].op = op /\ reqs[i + 1].op = op
    /\ reqs[i].pc = "done" /\ reqs[i + 1].pc = "done"
    /\ reqs[i].userId = reqs[i + 1].userId
    /\ reqs[i].postId = reqs[i + 1].postId
    /\ UserExists(reqs[i].userId) /\ PostExists(reqs[i].postId)

RowsOf(table, postId) == {x \in table : x.postId = postId}

\* the pair starts with no row of the kind for (U,P)
ToggledTwice(i, kind) ==
    /\ TwiceInSequence(i, kind)
    /\ ~ \E x \in reqs[i].pre : x.userId = reqs[i].userId /\ x.postId = reqs[i].postId

\* C1: for like and for save, with U and P existing and no row for (U,P), two
\* toggles by U on P in sequence answer first active=true with count =
\* baseline+1, then active=false with count = baseline, and leave the rows of
\* the kind exactly as they were before the two calls.
C1_ToggleTwice ==
    \A kind \in {"like", "save"} : \A i \in 1..Len(reqs) :
        ToggledTwice(i, kind) =>
            LET baseline == Cardinality(RowsOf(reqs[i].pre, reqs[i].postId)) IN
            /\ reqs[i].status = 200 /\ reqs[i].active
            /\ reqs[i].count = baseline + 1
            /\ reqs[i + 1].status = 200 /\ ~ reqs[i + 1].active
            /\ reqs[i + 1].count = baseline
            /\ (i + 1 = Len(reqs) => rows[kind] = reqs[i].pre)

\* a like toggled twice by user 1 after user 2 liked the post (baseline 1)
C1_Witness ==
    \E i \in 1..Len(reqs) :
        /\ ToggledTwice(i, "like")
        /\ reqs[i].pre # {}
        /\ reqs[i + 1].count = 1

\* C5: with U and P existing, two share calls by U on P in sequence both
\* answer shared=true, the second returns the shareCount of the first, and
\* the second creates no row.
C5_ShareTwice ==
    \A i \in 1..Len(reqs) :
        TwiceInSequence(i, "share") =>
            /\ reqs[i].status = 200 /\ reqs[i].active
            /\ reqs[i + 1].status = 200 /\ reqs[i + 1].active
            /\ reqs[i + 1].count = reqs[i].count
            /\ reqs[i + 1].wrote = ""
            /\ (i + 1 = Len(reqs) => rows["share"] = reqs[i + 1].pre)

\* user 2 shares the post twice, the first call creating the row, after user 1
C5_Witness ==
    \E i \in 1..Len(reqs) :
        /\ TwiceInSequence(i, "share")
        /\ reqs[i].wrote = "create"
        /\ reqs[i + 1].count = 2

\* --------------------------------------------------------------------- C2

SamePair(x, y) == x.userId = y.userId /\ x.postId = y.postId

\* C2: under any interleaving of like, save, share and read requests, each
\* table holds at most one row per (user, post), and the rows of a kind for a
\* post are never more than the users (nor fewer than none).
C2_OneRowPerPair ==
    \A kind \in Kinds :
        /\ \A x, y \in rows[kind] : SamePair(x, y) => x = y
        /\ \A p \in posts :
              /\ countRows(kind, p.id) >= 0
              /\ countRows(kind, p.id) <= Cardinality(users)

\* two likes of the same pair raced to the create, one lost at the unique
\* constraint, and a read row was upserted twice
C2_Witness ==
    /\ \E r \in 1..Len(reqs) : reqs[r].op = "like" /\ reqs[r].err = "P2002"
    /\ \E r \in 1..Len(reqs) : reqs[r].op = "read" /\ reqs[r].pc = "done"
    /\ rows["like"] # {} /\ rows["read"] # {}

\* --------------------------------------------------------------------- C4

\* C4: a like or save toggle that found no row and then lost the create at
\* the unique constraint is treated as already active: it answers 200 with
\* active=true and the count, not an error; and the race created one row of
\* the pair, not two.
C4_LoserIsActive ==
    \A r \in 1..Len(reqs) :
        (reqs[r].op \in {"like", "save"} /\ reqs[r].err = "P2002") =>
            /\ reqs[r].status = 200
            /\ reqs[r].active
            /\ \A x, y \in rows[reqs[r].op] : SamePair(x, y) => x = y

\* --------------------------------------------------------------------- C7

Authorized(q) == authenticateToken(q.hdr).status = 0

\* C7: a like, save or share request creates or deletes a row only when it
\* carries a valid token, and the token is that of the row's user.
C7_OnlyAuthorizedWrites ==
    \A r \in 1..Len(reqs) :
        (reqs[r].op \in {"like", "save", "share"} /\ reqs[r].wrote # "") =>
            /\ Authorized(reqs[r])
            /\ authenticateToken(reqs[r].hdr).userId = reqs[r].userId

\* --------------------------------------------------------------------- C6

Guarded == {"create", "update", "delete"}

\* the header carries a second word, and it is a token signed with the
\* secret and not expired when the request arrived
Carries(q) == Len(q.hdr) >= 2 /\ q.hdr[2].sig # ""
ValidAt(q) == q.hdr[2].sig = "secret" /\ q.at < q.hdr[2].exp
Untouched(q) == q.pc = "done" /\ q.caller = Undef /\ q.wrote = "" /\ q.err = ""

\* C6: on a guarded route, no token gives 401, an invalid or expired token
\* gives 403, in both cases with the handler not run and nothing written; a
\* valid token attaches the user it was issued for and the handler runs.
C6_GuardOutcomes ==
    \A r \in 1..Len(reqs) :
        LET q == reqs[r] IN
        q.op \in Guarded =>
            /\ ~ Carries(q) => q.status = 401 /\ Untouched(q)
            /\ (Carries(q) /\ ~ ValidAt(q)) => q.status = 403 /\ Untouched(q)
            /\ (Carries(q) /\ ValidAt(q)) =>
                  /\ q.caller = q.hdr[2].userId
                  /\ q.status # 401
                  /\ q.pc = "done" => q.status \in {200, 201, 403, 404}

\* the three outcomes in one behaviour: no token, a token that expired while
\* the server ran, and user 1 deleting the post
C6_Witness ==
    /\ \E r \in 1..Len(reqs) : reqs[r].status = 401
    /\ \E r \in 1..Len(reqs) :
          /\ reqs[r].status = 403 /\ reqs[r].hdr = Bearer(Tok(1)) /\ reqs[r].caller = Undef
    /\ \E r \in 1..Len(reqs) : reqs[r].op = "delete" /\ reqs[r].wrote = "delete"

\* --------------------------------------------------------------------- C3

Changed(r) == reqs'[r] # reqs[r]

\* the post the request names exists and is not the caller's
Foreign(q) ==
    /\ q.op \in {"update", "delete"}
    /\ Authorized(q)
    /\ \E p \in posts : p.id = q.postId /\ p.authorId # authenticateToken(q.hdr).userId

\* C3 as stated: an update or delete of an existing post by an authenticated
\* caller who is not its author always answers 403.
C3_AlwaysForbidden ==
    \A r \in 1..Len(reqs) :
        (reqs[r].pc = "done" /\ Foreign(reqs[r])) => reqs[r].status = 403

\* an update body that supplies no field, or an empty title or content
BadUpdate(b) ==
    \/ b.keys = {}
    \/ "title" \in b.keys /\ b.title = ""
    \/ "content" \in b.keys /\ b.content = ""

ForeignAnswer(q) ==
    IF q.op = "update" /\ BadUpdate(q.body) THEN q.status = 400 ELSE q.status = 403

\* every step that changes or removes a post is the write of a request whose
\* caller is the post's author
OnlyAuthorWrites ==
    \A p \in posts :
        p \notin posts' =>
            \E r \in 1..Len(reqs) :
                /\ Changed(r)
                /\ reqs[r].op \in {"update", "delete"}
                /\ reqs[r].postId = p.id
                /\ Authorized(reqs[r])
                /\ authenticateToken(reqs[r].hdr).userId = p.authorId

\* no step of an update or delete of a foreign post changes the store
ForeignStepsIdle ==
    \A r \in 1..Len(reqs) : (Changed(r) /\ Foreign(reqs[r])) => UNCHANGED store

\* C3 amended: such a request answers 403, or 400 when it is an update whose
\* body fails validation; none of its steps changes the store, and a post is
\* only ever changed or removed by a request of its author.
C3_NeverByNonAuthor ==
    /\ [](\A r \in 1..Len(reqs) :
            (reqs[r].pc = "done" /\ Foreign(reqs[r])) => ForeignAnswer(reqs[r]))
    /\ [][OnlyAuthorWrites /\ ForeignStepsIdle]_vars

\* user 2 was refused the update and the delete of post 1, which is as it was
C3_Witness ==
    /\ \E r \in 1..Len(reqs) :
          Foreign(reqs[r]) /\ reqs[r].op = "update" /\ reqs[r].status = 403
    /\ \E r \in 1..Len(reqs) :
          Foreign(reqs[r]) /\ reqs[r].op = "delete" /\ reqs[r].status = 403
    /\ Post(1, 1) \in posts

\* --------------------------------------------------------------------- C8

Deleted(q) == q.op = "delete" /\ q.status = 200

References(postId) ==
    UNION {{x \in rows[k] : x.postId = postId} : k \in Kinds}
        \cup {x \in comments : x.postId = postId}

OtherRows(t, postId) == {x \in t : x.postId # postId}

\* the step that deletes a post leaves the rows of the other posts alone
DeleteKeepsOthers ==
    \A r \in 1..Len(reqs) :
        (reqs[r].op = "delete" /\ reqs[r].wrote = "" /\ reqs'[r].wrote = "delete") =>
            /\ \A k \in Kinds :
                  OtherRows(rows'[k], reqs[r].postId) = OtherRows(rows[k], reqs[r].postId)
            /\ OtherRows(comments', reqs[r].postId) = OtherRows(comments, reqs[r].postId)

\* C8: once the author's delete of P answered 200, no like, save, share, read
\* or comment row references P, and the delete left the rows of other posts
\* as they were.
C8_DeleteCascades ==
    /\ [](\A r \in 1..Len(reqs) : Deleted(reqs[r]) => References(reqs[r].postId) = {})
    /\ [][DeleteKeepsOthers]_vars

\* post 1 was deleted with its rows while a like of it was in flight, which
\* then failed on the foreign key; the rows of post 2 are still there
C8_Witness ==
    /\ \E r \in 1..Len(reqs) : Deleted(reqs[r]) /\ reqs[r].postId = 1
    /\ \E r \in 1..Len(reqs) : reqs[r].op = "like" /\ reqs[r].err = "P2003"
    /\ \A k \in Kinds : rows[k] = {Row(2, 1, 2)}
    /\ comments = {Comment(3, 1, 2)}

\* -------------------------------------------------------------------- C10

Invalid(q) == q.op = "update" /\ BadUpdate(q.body)
NeverExisted(postId) == postId >= nextId["post"]

\* C10: for an authenticated update or delete, an invalid update body answers
\* 400 without any store call, whatever the post; otherwise an id that names
\* no post answers 404 whoever the caller is; and the handler answers 403
\* only while the post exists with an authorId other than the caller.
C10_CheckOrder ==
    /\ [](\A r \in 1..Len(reqs) :
            LET q == reqs[r] IN
            (q.op \in {"update", "delete"} /\ Authorized(q) /\ q.pc = "done") =>
                /\ Invalid(q) => q.status = 400 /\ q.err = "" /\ q.wrote = ""
                /\ (~ Invalid(q) /\ NeverExisted(q.postId)) => q.status = 404)
    /\ [][\A r \in 1..Len(reqs) :
            (reqs[r].pc # "done" /\ reqs'[r].pc = "done" /\ reqs'[r].status = 403) =>
                \E p \in posts : p.id = reqs[r].postId /\ p.authorId # reqs[r].caller]_vars

\* an empty update body answered 400 on a foreign post and on a missing one
C10_Witness ==
    /\ \E r \in 1..Len(reqs) : Foreign(reqs[r]) /\ Invalid(reqs[r]) /\ reqs[r].status = 400
    /\ \E r \in 1..Len(reqs) :
          /\ Invalid(reqs[r]) /\ NeverExisted(reqs[r].postId) /\ reqs[r].status = 400

\* --------------------------------------------------------------------- C9

AboutPost ==
    {"get", "like", "save", "share", "read",
     "likeStatus", "saveStatus", "shareStatus", "readStatus"}

\* request r arrived after the delete d had answered 200, and names its post
LaterOnGone(r, d) ==
    /\ Deleted(reqs[d])
    /\ d \in reqs[r].after
    /\ reqs[r].pc = "done"
    /\ reqs[r].op \in AboutPost
    /\ reqs[r].postId = reqs[d].postId

NoUser(q) == q.op \in Kinds /\ Falsy(q.userId)

StatusOps == {"likeStatus", "saveStatus", "shareStatus", "readStatus"}

KindOf(op) ==
    CASE op = "likeStatus" -> "like" [] op = "saveStatus" -> "save"
      [] op = "shareStatus" -> "share" [] op = "readStatus" -> "read"

\* the answer of a status query against the tables as they are now
StatusAnswer(q) ==
    /\ q.status = 200
    /\ q.count = Cardinality(RowsOf(rows[KindOf(q.op)], q.postId))
    /\ q.active = (/\ q.userId > 0
                   /\ \E x \in rows[KindOf(q.op)] :
                         x.userId = q.userId /\ x.postId = q.postId)

\* C11: no step of a status query (like-status, save-status, share-status,
\* read count) changes the store; a query of an existing post answers 200
\* with the number of rows of its kind for the post, and active=true exactly
\* when a userId was given and (userId, postId) has a row, false without one.
C11_StatusReadOnly ==
    /\ [](\A r \in 1..Len(reqs) :
            (/\ r = Len(reqs) /\ reqs[r].pc = "done"
             /\ reqs[r].op \in StatusOps /\ PostExists(reqs[r].postId)) =>
                StatusAnswer(reqs[r]))
    /\ [][\A r \in 1..Len(reqs') :
            (reqs'[r].op \in StatusOps /\ (r > Len(reqs) \/ Changed(r))) =>
                UNCHANGED store]_vars

\* after user 2 unliked post 1 and user 1 read it: like-status of user 2 is
\* (false, 0) and the read count is 2
C11_Witness ==
    /\ Len(reqs) = 3
    /\ \E r \in 1..Len(reqs) : reqs[r].op = "like" /\ reqs[r].wrote = "delete"
    /\ \E r \in 1..Len(reqs) :
          /\ reqs[r].op = "shareStatus" /\ reqs[r].userId = 2
          /\ reqs[r].active /\ reqs[r].count = 1
    /\ reqs[3].op = "likeStatus" /\ reqs[3].userId = 2 /\ reqs[3].pc = "done"
    /\ ~ reqs[3].active /\ reqs[3].count = 0

\* -------------------------------------------------------------------- C12

\* the (user, post) of row x still has a row of the kind after the step
KeptBy(kind, x) == \E y \in rows'[kind] : SamePair(x, y)

\* C12: under any interleaving of like, save, share, read, comment, update,
\* delete and status requests, a step removes the Share or Read row of (U,P)
\* only when it removes P or U: while both exist, the pair keeps its row.
C12_NeverReversed ==
    [][\A kind \in {"share", "read"} : \A x \in rows[kind] :
          ((\E p \in posts' : p.id = x.postId) /\ (\E u \in users' : u.id = x.userId))
              => KeptBy(kind, x)]_vars

\* user 1 shared post 1, then shared it again while the post was updated: the
\* row of the first call is there, next to the row of user 2
C12_Witness ==
    /\ Len(reqs) = 2
    /\ reqs[1].op = "share" /\ reqs[1].userId = 1 /\ reqs[1].wrote = "create"
    /\ reqs[2].op = "update" /\ reqs[2].wrote = "update"
    /\ \E x \in rows["share"] : x.userId = 1 /\ x.postId = 1
    /\ \E x \in rows["share"] : x.userId = 2 /\ x.postId = 1
    /\ \E x \in rows["read"] : x.userId = 2 /\ x.postId = 1

\* -------------------------------------------------------------------- C13

\* the rows of the request's pair in a table
PairRows(table, q) == {x \in table : x.userId = q.userId /\ x.postId = q.postId}

\* request r is an answered record of `kind` whose pair had a row on arrival
Repeat(r, kind) ==
    /\ reqs[r].op = kind /\ reqs[r].pc = "done" /\ reqs[r].status = 200
    /\ PairRows(reqs[r].pre, reqs[r]) # {}

\* no later request recorded a read of the same pair
LastRead(r) ==
    \A s \in (r + 1)..Len(reqs) :
        ~ (reqs[s].op = "read" /\ reqs[s].wrote # "" /\ SamePair(reqs[s], reqs[r]))

\* the time by which request r was answered: requests come one at a time
AnsweredBy(r) == IF r < Len(reqs) THEN reqs[r + 1].at ELSE now

\* C13: a repeated read record keeps the pair's row (same id) and the
\* readCount, and the row's timestamp becomes the time of the repeat call; a
\* repeated share record writes nothing and the pair's row keeps the
\* timestamp of its creation.
C13_ReadTouchesShareKeeps ==
    \A r \in 1..Len(reqs) :
        /\ Repeat(r, "read") =>
              /\ reqs[r].count = Cardinality(RowsOf(reqs[r].pre, reqs[r].postId))
              /\ {x.id : x \in PairRows(rows["read"], reqs[r])}
                     = {x.id : x \in PairRows(reqs[r].pre, reqs[r])}
              /\ LastRead(r) =>
                    \A x \in PairRows(rows["read"], reqs[r]) :
                        reqs[r].at <= x.createdAt /\ x.createdAt <= AnsweredBy(r)
        /\ Repeat(r, "share") =>
              /\ reqs[r].wrote = ""
              /\ reqs[r].count = Cardinality(RowsOf(reqs[r].pre, reqs[r].postId))
              /\ PairRows(rows["share"], reqs[r]) = PairRows(reqs[r].pre, reqs[r])

\* a user read the post at time 2 and again at time 3: the read row is of
\* time 3, while a share row of time 2 is as it was
C13_Witness ==
    /\ \E r \in 1..Len(reqs) :
          /\ Repeat(r, "read") /\ reqs[r].at = 3
          /\ \A x \in PairRows(reqs[r].pre, reqs[r]) : x.createdAt = 2
          /\ \A x \in PairRows(rows["read"], reqs[r]) : x.createdAt = 3
    /\ \E x \in rows["share"] : x.createdAt = 2

\* -------------------------------------------------------------------- C14

\* C14: a request whose store call failed is answered 500, whatever the
\* operation: never a 4xx and never a success.
C14_FaultIs500 ==
    \A r \in 1..Len(reqs) : reqs[r].err = "P1001" => reqs[r].status = 500

\* -------------------------------------------------------------------- C15

\* postId or userId missing, no number, or zero
Malformed(q) == q.postId <= 0 \/ q.userId <= 0

\* both ids are well formed and the postId names no post
NoSuchPost(q) == ~ Malformed(q) /\ ~ PostExists(q.postId)

\* C15: a like, save, share or read record whose postId or userId is missing,
\* not a number or zero answers 400; one with well-formed ids whose postId
\* names no post answers 404; and no step of either changes any table.
C15_BadRequest ==
    /\ [](\A r \in 1..Len(reqs) :
            (reqs[r].op \in Kinds /\ reqs[r].pc = "done") =>
                /\ Malformed(reqs[r]) => reqs[r].status = 400
                /\ NoSuchPost(reqs[r]) => reqs[r].status = 404)
    /\ [][\A r \in 1..Len(reqs') :
            (/\ reqs'[r].op \in Kinds
             /\ Malformed(reqs'[r]) \/ NoSuchPost(reqs'[r])
             /\ r > Len(reqs) \/ Changed(r)) => UNCHANGED store]_vars

\* a save with userId 0 answered 400 and a read of post 3 answered 404; the
\* tables are as they were
C15_Witness ==
    /\ \E r \in 1..Len(reqs) :
          /\ reqs[r].op = "save" /\ reqs[r].postId = 1 /\ reqs[r].userId = 0
          /\ reqs[r].status = 400
    /\ \E r \in 1..Len(reqs) :
          reqs[r].op = "read" /\ reqs[r].postId = 3 /\ reqs[r].status = 404
    /\ rows = [k \in Kinds |-> {Row(1, 2, 1), Row(2, 1, 2)}]

\* -------------------------------------------------------------------- C16

\* C16: a search without q, or with an empty q, answers 400 without a store
\* call, whatever its other parameters and its headers.
C16_NoQueryIs400 ==
    \A r \in 1..Len(reqs) :
        (reqs[r].op = "search" /\ NoQ(reqs[r].body)) =>
            reqs[r].pc = "done" /\ reqs[r].status = 400 /\ reqs[r].err = ""

\* -------------------------------------------------------------------- C17

\* k is the ceiling of total / limit
IsCeiling(k, total, limit) == k * limit >= total /\ (k - 1) * limit < total

\* C17: an answered list request with page >= 1 and limit >= 1 has offset =
\* (page-1)*limit; totalPages is the ceiling of totalPosts/limit; hasNextPage
\* is page < totalPages, which is page*limit < totalPosts; hasPrevPage is
\* page > 1; and 25 posts by 10 are 3 pages, the third with no next page and
\* with a previous one.
C17_Pagination ==
    \A r \in 1..Len(reqs) :
        LET q == reqs[r] IN
        (q.op = "list" /\ q.pc = "done" /\ q.page >= 1 /\ q.limit >= 1) =>
            /\ q.totalPosts >= 0
            /\ q.offset = (q.page - 1) * q.limit
            /\ IsCeiling(q.pagination.totalPages, q.totalPosts, q.limit)
            /\ q.pagination.hasNextPage = (q.page < q.pagination.totalPages)
            /\ q.pagination.hasNextPage = (q.page * q.limit < q.totalPosts)
            /\ q.pagination.hasPrevPage = (q.page > 1)
            /\ (q.totalPosts = 25 /\ q.limit = 10) =>
                  /\ q.pagination.totalPages = 3
                  /\ q.page = 3 => ~ q.pagination.hasNextPage /\ q.pagination.hasPrevPage

\* page 3 of 25 posts by 10: the five oldest posts, 3 pages, no next page
C17_Witness ==
    \E r \in 1..Len(reqs) :
        /\ reqs[r].op = "list" /\ reqs[r].pc = "done"
        /\ reqs[r].totalPosts = 25 /\ reqs[r].limit = 10 /\ reqs[r].page = 3
        /\ reqs[r].items = 1..5
        /\ reqs[r].pagination = [totalPages |-> 3, hasNextPage |-> FALSE, hasPrevPage |-> TRUE]

\* -------------------------------------------------------------------- C18

\* a user with the request's email or username was there when it arrived
TakenOnArrival(q) == \E u \in q.pre : u.email = q.email \/ u.username = q.username

\* C18: a registration whose email or username was that of a user on arrival
\* answers 400 with no token and writes nothing, and none of its steps
\* changes the users.
C18_DuplicateRefused ==
    /\ [](\A r \in 1..Len(reqs) :
            (reqs[r].op = "register" /\ reqs[r].pc = "done" /\ TakenOnArrival(reqs[r])) =>
                /\ reqs[r].status = 400
                /\ reqs[r].token = NoToken /\ reqs[r].wrote = "")
    /\ [][\A r \in 1..Len(reqs') :
            (/\ reqs'[r].op = "register" /\ TakenOnArrival(reqs'[r])
             /\ r > Len(reqs) \/ Changed(r)) => UNCHANGED store]_vars

\* email 3 was registered; a second registration of email 3 under another
\* username was refused, and there are three users
C18_Witness ==
    /\ Len(reqs) = 2 /\ reqs[1].status = 201 /\ reqs[1].email = 3
    /\ reqs[2].op = "register" /\ reqs[2].email = 3
    /\ reqs[2].username # reqs[1].username /\ reqs[2].password = 6
    /\ TakenOnArrival(reqs[2]) /\ reqs[2].status = 400
    /\ Cardinality(users) = 3

\* -------------------------------------------------------------------- C19

\* login l names the email and the password of the answered registration g,
\* whose user was there when l arrived
LoginOf(l, g) ==
    /\ reqs[g].op = "register" /\ reqs[g].status = 201
    /\ reqs[l].op = "login" /\ reqs[l].pc = "done"
    /\ reqs[l].email = reqs[g].email /\ reqs[l].password = reqs[g].password
    /\ \E u \in reqs[l].pre : u.id = reqs[g].found

\* no user has the email of the login
Unregistered(q) == ~ \E u \in users : u.email = q.email

\* the user of that email registered with another password, or was there from
\* the start, with a password nobody knows
NonMatching(q) ==
    \E u \in q.pre :
        /\ u.email = q.email
        /\ ~ \E g \in 1..Len(reqs) :
               /\ reqs[g].op = "register" /\ reqs[g].found = u.id
               /\ reqs[g].password = q.password

Refused(q, s) ==
    q.status = s /\ q.token = NoToken
        /\ (s = 401 => q.error = "Invalid email or password")

\* a login after the registration answers 200 with the registered identity
\* and a token that the guard resolves to it
Accepted(l, g) ==
    /\ reqs[l].status = 200 /\ reqs[l].found = reqs[g].found
    /\ authenticateToken(Bearer(reqs[l].token))
           = [status |-> 0, userId |-> reqs[g].found]

LoginStepsIdle ==
    \A r \in 1..Len(reqs') :
        (reqs'[r].op = "login" /\ (r > Len(reqs) \/ Changed(r))) => UNCHANGED store

\* C19 as stated: a login with the email and password of a registration
\* answers 200 with that identity and a token the guard resolves to it; a
\* login with an unregistered email or a non-matching password always answers
\* 401 with the one error, without a token; a login changes no state.
C19_LoginOutcomes ==
    /\ [](\A l \in 1..Len(reqs) :
            /\ \A g \in 1..Len(reqs) : LoginOf(l, g) => Accepted(l, g)
            /\ (/\ reqs[l].op = "login" /\ reqs[l].pc = "done"
                /\ Unregistered(reqs[l]) \/ NonMatching(reqs[l])) => Refused(reqs[l], 401))
    /\ [][LoginStepsIdle]_vars

\* the email is missing or ill-formed, or the password is missing or empty
BadLogin(q) == q.email = 0 \/ q.password = 0

\* C19 amended: ... a login with an unregistered email or a non-matching
\* password answers 401 with the one error, or 400 when its body fails the
\* login schema, without a token; a login changes no state.
C19_LoginOr400 ==
    /\ [](\A l \in 1..Len(reqs) :
            /\ \A g \in 1..Len(reqs) : LoginOf(l, g) => Accepted(l, g)
            /\ (/\ reqs[l].op = "login" /\ reqs[l].pc = "done"
                /\ Unregistered(reqs[l]) \/ NonMatching(reqs[l])) =>
                    Refused(reqs[l], IF BadLogin(reqs[l]) THEN 400 ELSE 401))
    /\ [][LoginStepsIdle]_vars

\* email 3 registered with password 6 and logged in with it: the token of the
\* login is that of the new user 3
C19_Witness ==
    /\ Len(reqs) = 2 /\ LoginOf(2, 1)
    /\ reqs[1].email = 3 /\ reqs[2].status = 200
    /\ reqs[2].token.userId = 3 /\ reqs[2].token.sig = "secret"

\* -------------------------------------------------------------------- C20

\* the post request r created
Created(r) == {p \in posts : p.id = reqs[r].found /\ reqs[r].wrote = "create"}

\* C20: every post that was not there from the start was created by one
\* request to POST /posts that carried a valid token, and has the authorId of
\* that token and published=false unless the body gave published; a body
\* that names an authorId creates nothing; a request without a valid token
\* answers 401 or 403 and creates nothing.
C20_AuthorFromToken ==
    /\ \A p \in posts :
          p.id >= 2 =>
              \E r \in 1..Len(reqs) :
                  /\ reqs[r].op = "create" /\ Created(r) = {p}
                  /\ Carries(reqs[r]) /\ ValidAt(reqs[r])
                  /\ p.authorId = reqs[r].hdr[2].userId
                  /\ p.published = ("published" \in reqs[r].body.keys /\ reqs[r].body.published)
                  /\ "authorId" \notin reqs[r].body.keys
    /\ \A r \in 1..Len(reqs) :
          (reqs[r].op = "create" /\ ~ (Carries(reqs[r]) /\ ValidAt(reqs[r]))) =>
              reqs[r].status \in {401, 403} /\ reqs[r].wrote = ""
    /\ \A r \in 1..Len(reqs) :
          (reqs[r].op = "create" /\ reqs[r].status = 201) => Created(r) # {}

\* user 2 created post 2 without published and user 1 post 3 with
\* published=true, and a request with a forged token of user 2 got 403
C20_Witness ==
    /\ [id |-> 2, title |-> "t3", content |-> "c3", published |-> FALSE, authorId |-> 2] \in posts
    /\ [id |-> 3, title |-> "t3", content |-> "c3", published |-> TRUE, authorId |-> 1] \in posts
    /\ \E r \in 1..Len(reqs) : reqs[r].hdr = Bearer(Forged(2)) /\ reqs[r].status = 403

\* -------------------------------------------------------------------- C21

\* C21: no step changes the authorId of a post, whatever request takes it
\* (update, delete, creation of another post, like, profile update), and a
\* post that a step creates has the authorId of a user that exists then.
C21_AuthorImmutable ==
    [][/\ \A p \in posts, n \in posts' : n.id = p.id => n.authorId = p.authorId
       /\ \A n \in posts' :
             (~ \E p \in posts : p.id = n.id) => \E u \in users : u.id = n.authorId]_vars

\* user 2 created post 2 and retitled it, then a profile was renamed: post 2
\* is still of user 2 and post 1 of user 1
C21_Witness ==
    /\ Len(reqs) = 3
    /\ reqs[1].op = "create" /\ reqs[1].caller = 2 /\ reqs[1].found = 2
    /\ reqs[2].op = "update" /\ reqs[2].postId = 2 /\ reqs[2].wrote = "update"
    /\ reqs[3].op = "updateUser" /\ reqs[3].wrote = "update"
    /\ \E p \in posts : p.id = 2 /\ p.authorId = 2 /\ p.title = "t2"
    /\ \E p \in posts : p.id = 1 /\ p.authorId = 1

\* -------------------------------------------------------------------- C22

GuardedOps == {"create", "update", "delete", "updateUser"}

\* the identity the guard attaches, from the header and the time alone
Resolves(q) ==
    IF Carries(q) /\ q.hdr[2].sig = "secret" /\ q.at < q.hdr[2].exp
    THEN q.hdr[2].userId ELSE Undef

\* login l was answered with a token before request r arrived with it
IssuedTo(r, l) ==
    /\ reqs[l].op = "login" /\ reqs[l].status = 200
    /\ reqs[r].op \in GuardedOps
    /\ l \in reqs[r].after
    /\ reqs[r].hdr = Bearer(reqs[l].token)

\* C22: the token of a login is of the user who logged in and expires TokenTTL
\* after it was issued; a later guarded request that carries it before its
\* expiry is let through as that user, whatever was done to the store in
\* between; and the guard's verdict on any request follows from its header
\* and the time alone.
C22_TokenUntilExpiry ==
    /\ \A l \in 1..Len(reqs) :
          (reqs[l].op = "login" /\ reqs[l].status = 200) =>
              /\ reqs[l].token.userId = reqs[l].found
              /\ reqs[l].token.exp >= reqs[l].at + TokenTTL
    /\ \A r, l \in 1..Len(reqs) :
          (IssuedTo(r, l) /\ reqs[r].at < reqs[l].token.exp) =>
              reqs[r].caller = reqs[l].found /\ reqs[r].status # 401
    /\ \A r \in 1..Len(reqs) :
          reqs[r].op \in GuardedOps => reqs[r].caller = Resolves(reqs[r])

\* user 1 logged in at time 2, the profile was renamed, the clock ticked, and
\* the token of the login let the delete of post 1 through at time 3
C22_Witness ==
    /\ Len(reqs) = 3 /\ IssuedTo(3, 1)
    /\ reqs[1].at = 2
    /\ reqs[2].op = "updateUser" /\ reqs[2].wrote = "update"
    /\ reqs[3].op = "delete" /\ reqs[3].at = 3 /\ reqs[3].wrote = "delete"

\* -------------------------------------------------------------------- C23

\* the step is the create of comment request r
Commented(r) ==
    reqs[r].op = "comment" /\ reqs[r].pc # "done" /\ reqs'[r].status = 201

\* request i + 1 is a successful comment on a post, listed before and after
ListedAround(i) ==
    /\ i + 2 <= Len(reqs)
    /\ reqs[i].op = "comments" /\ reqs[i].status = 200
    /\ reqs[i + 1].op = "comment" /\ reqs[i + 1].status = 201
    /\ reqs[i + 2].op = "comments" /\ reqs[i + 2].status = 200
    /\ reqs[i].postId = reqs[i + 1].postId /\ reqs[i + 2].postId = reqs[i + 1].postId

\* C23: the successful step of an add-comment adds one row, of the request's
\* user, post and content, to the comments as they were, however many the
\* user has on the post; the commentCount listed after it is one more than the
\* one listed before; and any other step keeps every comment as it is, unless
\* it removes the comment's post.
C23_CommentsOnlyGrow ==
    /\ [](\A i \in 1..Len(reqs) :
            ListedAround(i) =>
                /\ reqs[i + 2].count = reqs[i].count + 1
                /\ reqs[i + 2].found = reqs[i].found + 1)
    /\ [][/\ \A r \in 1..Len(reqs) :
             Commented(r) =>
                 \E c \in comments' \ comments :
                     /\ comments' = comments \cup {c}
                     /\ ~ \E x \in comments : x.id = c.id
                     /\ c.userId = reqs[r].userId /\ c.postId = reqs[r].postId
                     /\ c.content = reqs[r].body.content
          /\ (~ \E r \in 1..Len(reqs) : Commented(r)) => comments' \subseteq comments
          /\ \A c \in comments :
                c \in comments' \/ ~ \E p \in posts' : p.id = c.postId]_vars

\* user 2, with two comments on post 1, added a third: the list counted 2
\* before and 3 after
C23_Witness ==
    /\ ListedAround(1)
    /\ reqs[2].userId = 2 /\ reqs[1].count = 2 /\ reqs[3].count = 3
    /\ Cardinality({c \in comments : c.userId = 2 /\ c.postId = 1}) = 3

\* -------------------------------------------------------------------- C24

\* the step is the count of toggle request r, which answers it
Counted(r) ==
    /\ reqs[r].op \in {"like", "save"}
    /\ reqs[r].pc = "count" /\ reqs'[r].pc = "done"

\* C24: under any interleaving, the step that answers a like or save toggle
\* answers 200 with the number of rows of its kind that the post has in the
\* store at that step, and with the outcome of its own write.
C24_FreshCount ==
    [][\A r \in 1..Len(reqs) :
          Counted(r) =>
              /\ reqs'[r].status = 200
              /\ reqs'[r].count = Cardinality(RowsOf(rows[reqs[r].op], reqs[r].postId))
              /\ reqs'[r].active = (reqs[r].wrote = "create")]_vars

\* users 1 and 2 liked the post at the same time and each was answered with
\* both likes counted; a third like, by one of them, answered 1
C24_Witness ==
    /\ Len(reqs) = 3
    /\ \A r \in 1..2 : reqs[r].op = "like" /\ reqs[r].active /\ reqs[r].count = 2
    /\ reqs[1].userId # reqs[2].userId
    /\ reqs[3].op = "like" /\ reqs[3].status = 200
    /\ ~ reqs[3].active /\ reqs[3].count = 1

\* -------------------------------------------------------------------- C25

\* C25: in every state, under any interleaving of engagement, comment,
\* update and delete requests, every like, save, share, read and comment row
\* is of a post and of a user that exist; and a request whose create or
\* upsert was refused by the foreign key wrote nothing.
C25_NoDanglingRows ==
    /\ \A kind \in Kinds : \A x \in rows[kind] :
          PostExists(x.postId) /\ UserExists(x.userId)
    /\ \A c \in comments : PostExists(c.postId) /\ UserExists(c.userId)
    /\ \A r \in 1..Len(reqs) :
          reqs[r].err = "P2003" => reqs[r].wrote = "" /\ reqs[r].status >= 400

\* post 1 was deleted between the post check and the create of a share of
\* it: the share was refused, and the rows left are those of post 2
C25_Witness ==
    /\ \E d \in 1..Len(reqs) : Deleted(reqs[d]) /\ reqs[d].postId = 1
    /\ \E r \in 1..Len(reqs) :
          /\ reqs[r].op = "share" /\ reqs[r].userId = 1
          /\ reqs[r].err = "P2003" /\ reqs[r].status = 500
    /\ \A k \in Kinds : rows[k] = {Row(2, 1, 2)}

\* -------------------------------------------------------------------- C26

\* the step is the write of update request r, answered 200
Updated(r) ==
    reqs[r].op = "update" /\ reqs[r].pc = "update" /\ reqs'[r].status = 200

\* post n is post p with the fields that body b supplies, and nothing else
\* of it changed
OnlySupplied(p, n, b) ==
    /\ n.id = p.id /\ n.authorId = p.authorId
    /\ n.title = IF "title" \in b.keys THEN b.title ELSE p.title
    /\ n.content = IF "content" \in b.keys THEN b.content ELSE p.content
    /\ n.published = IF "published" \in b.keys THEN b.published ELSE p.published

TwoOnRow ==
    /\ Len(reqs) = 2
    /\ \A r \in 1..2 : reqs[r].op = "like" /\ reqs[r].pc = "done"
    /\ SamePair(reqs[1], reqs[2])
    /\ PairRows(reqs[1].pre, reqs[1]) # {}

Unliked(q) == q.status = 200 /\ ~ q.active /\ q.wrote = "delete"
Reliked(q) == q.status = 200 /\ q.active /\ q.wrote = "create"
DeleteMissed(q) == q.status >= 400 /\ q.err = "P2025" /\ q.wrote = ""

\* C27: of two like toggles of a pair that has its row, run in any
\* interleaving, exactly one answers liked=false; the other answers
\* liked=true, having created the row anew, or an error, its delete having
\* found nothing; and the pair has a row at the end exactly when one answered
\* liked=true.
C27_OneUnlikes ==
    TwoOnRow =>
        /\ \E r \in 1..2 :
              /\ Unliked(reqs[r])
              /\ Reliked(reqs[3 - r]) \/ DeleteMissed(reqs[3 - r])
        /\ (PairRows(rows["like"], reqs[1]) # {}) = (\E r \in 1..2 : Reliked(reqs[r]))

\* both likes of user 2 on post 1 read the row before either deleted it: one
\* answered liked=false, the other an error, and the row is gone
C27_Witness ==
    /\ TwoOnRow /\ reqs[1].userId = 2
    /\ \E r \in 1..2 : DeleteMissed(reqs[r]) /\ reqs[r].status = 400
    /\ PairRows(rows["like"], reqs[1]) = {}

\* -------------------------------------------------------------------- C28

\* request r has passed findUnique and the ownership test and waits for its
\* write, and the post is no longer there
Overtaken(r) ==
    /\ reqs[r].op \in {"update", "delete"}
    /\ reqs[r].pc = reqs[r].op
    /\ ~ PostExists(reqs[r].postId)

\* the two requests received are answered deletes of post 1 by its author
TwoDeletes ==
    /\ Len(reqs) = 2
    /\ \A r \in 1..2 : /\ reqs[r].op = "delete" /\ reqs[r].pc = "done"
                       /\ reqs[r].postId = 1 /\ reqs[r].caller = 1

\* C28: an update or delete whose post was deleted after it passed its checks
\* answers 404 and leaves the posts as they are; of two deletes of a post by
\* its author, one answers 200 and the other 404.
C28_OvertakenIs404 ==
    /\ [](TwoDeletes => \E r \in 1..2 : reqs[r].status = 200 /\ reqs[3 - r].status = 404)
    /\ [][\A r \in 1..Len(reqs) :
            Overtaken(r) /\ Changed(r) =>
                /\ reqs'[r].pc = "done" /\ reqs'[r].status = 404
                /\ reqs'[r].wrote = ""
                /\ posts' = posts]_vars

\* two deletes of post 1 by user 1 both passed their checks; one deleted the
\* post and the write of the other found nothing
C28_Witness ==
    /\ TwoDeletes
    /\ \E r \in 1..2 : reqs[r].err = "P2025" /\ reqs[r].status = 404
    /\ ~ PostExists(1)

\* -------------------------------------------------------------------- C29

\* the rows of a table that are not those of the pair of request q
NotOfPair(table, q) == table \ PairRows(table, q)

\* C29: a step of a like, save, share or read request for (U,P) changes at
\* most the one row of its kind for (U,P): the other rows of that kind, the
\* rows of the other kinds, the comments, the posts and the users stay as they
\* are.
C29_OnlyOwnRow ==
    [][\A r \in 1..Len(reqs) :
          reqs[r].op \in Kinds /\ Changed(r) =>
              /\ NotOfPair(rows'[reqs[r].op], reqs[r]) = NotOfPair(rows[reqs[r].op], reqs[r])
              /\ Cardinality(PairRows(rows[reqs[r].op], reqs[r])) <= 1
              /\ Cardinality(PairRows(rows'[reqs[r].op], reqs[r])) <= 1
              /\ \A k \in Kinds \ {reqs[r].op} : rows'[k] = rows[k]
              /\ UNCHANGED <<comments, posts, users>>]_vars

\* user 2 has recorded a read of post 1 and taken back their like of it, and
\* the like and read rows of post 2 are still there
C29_Witness ==
    /\ Len(reqs) = 2
    /\ reqs[1].op = "read" /\ reqs[1].wrote # "" /\ reqs[1].userId = 2
    /\ reqs[2].op = "like" /\ reqs[2].wrote = "delete" /\ reqs[2].userId = 2
    /\ \E x \in rows["like"] : x.postId = 2
    /\ \E x \in rows["read"] : x.postId = 2

\* -------------------------------------------------------------------- C30

\* requests r and s are answered registrations with a common email or
\* username that both found no existing user
Raced(r, s) ==
    /\ r # s
    /\ \A i \in {r, s} : /\ reqs[i].op = "register" /\ reqs[i].pc = "done"
                         /\ reqs[i].status # 400
    /\ reqs[r].email = reqs[s].email \/ reqs[r].username = reqs[s].username

Registered(q) ==
    /\ q.status = 201 /\ q.wrote = "create" /\ q.token # NoToken
    /\ \E u \in users : u.id = q.found /\ u.email = q.email /\ u.username = q.username

Rejected(q) ==
    /\ q.status >= 400 /\ q.status # 201 /\ q.wrote = "" /\ q.token = NoToken
    /\ q.error # ""

\* C30: no two users have the same email or the same username; of two
\* registrations with a common email or username that both passed the
\* existing-user check, one creates its user and the other is answered with an
\* error, without a token and without a user.
C30_UniqueUsers ==
    /\ \A u, v \in users : u # v => u.email # v.email /\ u.username # v.username
    /\ \A r, s \in 1..Len(reqs) :
          Raced(r, s) =>
              /\ \A i \in {r, s} : Registered(reqs[i]) \/ Rejected(reqs[i])
              /\ ~ (Registered(reqs[r]) /\ Registered(reqs[s]))
              /\ Len(reqs) = 2 => Registered(reqs[r]) \/ Registered(reqs[s])

\* two registrations with email 3 and different usernames both found nobody;
\* the second create hit the unique constraint
C30_Witness ==
    /\ Len(reqs) = 2 /\ Raced(1, 2)
    /\ reqs[1].email = 3 /\ reqs[2].email = 3 /\ reqs[1].username # reqs[2].username
    /\ \E r \in 1..2 : reqs[r].err = "P2002" /\ reqs[r].status = 500

====
